---------------------------- MODULE Spec2Model ----------------------------
(***************************************************************************)
(* Model of the TCA dictionary tools:                                      *)
(*   tca_dictionary_clean_validate_sort.py  (validate / sort / dedup)      *)
(*   tca_dictionary_sort.py                 (sort only)                    *)
(*   tca_dictionary_validate.py             (stateful validator)           *)
(*                                                                         *)
(* A Python str is a sequence of one-character strings.  A worksheet cell  *)
(* is a record [t, s]: t is the Python type openpyxl hands back ("none",   *)
(* "str", "int", "float") and s is str(value) (empty for None).            *)
(***************************************************************************)
EXTENDS Integers, Sequences, FiniteSets, TLC

VARIABLES
    \* process_workbook (tca_dictionary_clean_validate_sort.py)
    wb,              \* the workbook file on disk: sheet, header, data rows
    opts,            \* the keyword arguments of process_workbook
    pc,              \* position inside process_workbook
    rows,            \* the local list `rows`
    errors,          \* the local list `errors`
    warnings,        \* the local list `warnings`
    removed_dups,    \* the local `removed_dups`
    section_changes, \* the local `section_changes`
    ws,              \* data rows of the in-memory worksheet
    saved,           \* what wb.save wrote (<<FALSE, <<>>>> before any save)
    exit_code,       \* the return value (NoneInt while running)
    stages,          \* history: the stages executed so far, in order
    \* pure functions applied to drawn inputs
    input, op, output,
    \* validate_workbook (tca_dictionary_validate.py)
    sheet,           \* the rows 2..max_row of the Dictionary sheet
    vpc,             \* position inside validate_workbook
    r,               \* loop index over sheet rows (1-based into sheet)
    seen_title_row, current_title, current_chapter, current_part,
    has_any_parts, chapter_has_parts, chapter_part_started,
    issues

pvars == <<wb, opts, pc, rows, errors, warnings, removed_dups,
           section_changes, ws, saved, exit_code, stages>>
fvars == <<input, op, output>>
vvars == <<sheet, vpc, r, seen_title_row, current_title, current_chapter,
           current_part, has_any_parts, chapter_has_parts,
           chapter_part_started, issues>>
vars == <<pvars, fvars, vvars>>

----------------------------------------------------------------------------
(* Python str operations, on sequences of characters *)

Digits == {"0", "1", "2", "3", "4", "5", "6", "7", "8", "9"}
Whitespace == {" "}
Lowers == <<"a","b","c","d","e","f","g","h","i","j","k","l","m",
            "n","o","p","q","r","s","t","u","v","w","x","y","z">>
Uppers == <<"A","B","C","D","E","F","G","H","I","J","K","L","M",
            "N","O","P","Q","R","S","T","U","V","W","X","Y","Z">>

\* str.lstrip / str.rstrip / str.strip
RECURSIVE LStrip(_)
LStrip(s) ==
    IF s # <<>> /\ Head(s) \in Whitespace THEN LStrip(Tail(s)) ELSE s

RECURSIVE RStrip(_)
RStrip(s) ==
    IF s # <<>> /\ s[Len(s)] \in Whitespace
    THEN RStrip(SubSeq(s, 1, Len(s) - 1)) ELSE s

Strip(s) == RStrip(LStrip(s))

\* str.upper
UpperChar(c) ==
    IF \E i \in 1..26 : Lowers[i] = c
    THEN Uppers[CHOOSE i \in 1..26 : Lowers[i] = c]
    ELSE c

Upper(s) == [i \in 1..Len(s) |-> UpperChar(s[i])]

\* str.isdigit: non-empty and every character a digit
IsDigit(s) == s # <<>> /\ \A i \in 1..Len(s) : s[i] \in Digits

DigitVal(c) ==
    CASE c = "0" -> 0 [] c = "1" -> 1 [] c = "2" -> 2 [] c = "3" -> 3
      [] c = "4" -> 4 [] c = "5" -> 5 [] c = "6" -> 6 [] c = "7" -> 7
      [] c = "8" -> 8 [] c = "9" -> 9

\* int(s) for a string of digits (0 for the empty string)
RECURSIVE ToNat(_)
ToNat(s) ==
    IF s = <<>> THEN 0
    ELSE 10 * ToNat(SubSeq(s, 1, Len(s) - 1)) + DigitVal(s[Len(s)])

\* re.fullmatch(r"^\d{3,4}$", s)
SECTION_RE(s) == IsDigit(s) /\ Len(s) \in {3, 4}

----------------------------------------------------------------------------
(* Cells *)

NoneCell == [t |-> "none", s |-> <<>>]
StrCell(s) == [t |-> "str", s |-> s]
IntCell(s) == [t |-> "int", s |-> s]
FloatCell(s) == [t |-> "float", s |-> s]

\* str(v)
PyStr(v) == IF v.t = "none" THEN <<"N", "o", "n", "e">> ELSE v.s

----------------------------------------------------------------------------
(* tca_dictionary_clean_validate_sort.py: helpers / normalization *)

Sentinel == 1000000000

_s(v) == IF v.t = "none" THEN <<>> ELSE Strip(PyStr(v))

\* float(s) succeeds.  Exact for strings over digits, ".", "+", "-", blanks
\* and letters that spell neither an exponent nor inf/nan: an optional sign,
\* then digits with at most one "." and at least one digit.
FloatBody(s) == IF s # <<>> /\ Head(s) \in {"+", "-"} THEN Tail(s) ELSE s

ParsesAsFloat(s) ==
    LET b == FloatBody(s) IN
    /\ \A i \in 1..Len(b) : b[i] \in Digits \cup {"."}
    /\ Cardinality({i \in 1..Len(b) : b[i] = "."}) <= 1
    /\ \E i \in 1..Len(b) : b[i] \in Digits

\* int(float(s)): truncation towards zero
IntOfFloat(s) ==
    LET b == FloatBody(s)
        dots == {i \in 1..Len(b) : b[i] = "."}
        ip == IF dots = {} THEN b
              ELSE SubSeq(b, 1, (CHOOSE i \in dots : TRUE) - 1)
        n == ToNat(ip)
    IN IF s # <<>> /\ Head(s) = "-" THEN 0 - n ELSE n

_to_int_or_default(v, default) ==
    LET s == _s(v) IN
    IF s = <<>> THEN default
    ELSE IF ParsesAsFloat(s) THEN IntOfFloat(s) ELSE default

RECURSIVE _digits_only(_)
_digits_only(s) ==
    IF s = <<>> THEN <<>>
    ELSE IF Head(s) \in Digits THEN <<Head(s)>> \o _digits_only(Tail(s))
    ELSE _digits_only(Tail(s))

\* a normalization that trims but keeps the non-digits
_norm_section_trim_only(section_raw) == _s(section_raw)

_norm_section_for_logic(section_raw) ==
    LET s == _s(section_raw) IN
    IF s = <<>> THEN <<>>
    ELSE IF IsDigit(s) THEN s
    ELSE _digits_only(s)

\* a classifier that tests Part before Section
_level_part_first(chapter, part, section) ==
    LET has_ch == chapter # <<>>
        has_pt == part # <<>>
        has_sc == section # <<>>
    IN IF ~has_ch /\ ~has_pt /\ ~has_sc THEN 0
       ELSE IF has_ch /\ ~has_pt /\ ~has_sc THEN 1
       ELSE IF has_ch /\ has_pt THEN 2
       ELSE 3

_level(chapter, part, section) ==
    LET has_ch == chapter # <<>>
        has_pt == part # <<>>
        has_sc == section # <<>>
    IN IF ~has_ch /\ ~has_pt /\ ~has_sc THEN 0
       ELSE IF has_ch /\ ~has_pt /\ ~has_sc THEN 1
       ELSE IF has_ch /\ has_pt /\ ~has_sc THEN 2
       ELSE 3

\* tca_dictionary_sort.py
_get_level(chapter, part, section) ==
    LET has_ch == Strip(chapter) # <<>>
        has_pt == Strip(part) # <<>>
        has_sc == Strip(section) # <<>>
    IN IF ~has_ch /\ ~has_pt /\ ~has_sc THEN 0
       ELSE IF has_ch /\ ~has_pt /\ ~has_sc THEN 1
       ELSE IF has_ch /\ has_pt /\ ~has_sc THEN 2
       ELSE 3

----------------------------------------------------------------------------
(* Rows: one cell per logical column.  The optional Status column is       *)
(* described by the column map (has_status); without it the status cell is *)
(* never read.                                                             *)

Row(j, t, c, p, s, k, v, st) ==
    [jurisdiction |-> j, title |-> t, chapter |-> c, part |-> p,
     section |-> s, key |-> k, value |-> v, status |-> st]

Cells(row) == {row.jurisdiction, row.title, row.chapter, row.part,
               row.section, row.key, row.value, row.status}

\* Python's < on tuples of ints
RECURSIVE TupleLess(_, _)
TupleLess(a, b) ==
    IF a = <<>> THEN b # <<>>
    ELSE IF b = <<>> THEN FALSE
    ELSE IF Head(a) # Head(b) THEN Head(a) < Head(b)
    ELSE TupleLess(Tail(a), Tail(b))

\* list.sort(key=...) on a list of [k |-> key tuple, v |-> value]: the
\* result is ordered by k and keeps the input order of equal keys
RECURSIVE InsertByKey(_, _)
InsertByKey(sorted, x) ==
    IF sorted = <<>> THEN <<x>>
    ELSE IF TupleLess(x.k, Head(sorted).k) THEN <<x>> \o sorted
    ELSE <<Head(sorted)>> \o InsertByKey(Tail(sorted), x)

RECURSIVE ListSortFrom(_, _, _)
ListSortFrom(seq, i, acc) ==
    IF i > Len(seq) THEN acc
    ELSE ListSortFrom(seq, i + 1, InsertByKey(acc, seq[i]))

ListSort(seq) == ListSortFrom(seq, 1, <<>>)

_make_sort_key(row) ==
    LET title_i == _to_int_or_default(row.title, Sentinel)
        ch_s == _s(row.chapter)
        pt_s == _s(row.part)
        sec_s == _norm_section_for_logic(row.section)
        ch_i == _to_int_or_default(StrCell(ch_s), Sentinel)
        pt_i == _to_int_or_default(StrCell(pt_s), Sentinel)
        lvl == _level(ch_s, pt_s, sec_s)
        sec_i == _to_int_or_default(StrCell(sec_s), Sentinel)
    IN [title_i |-> title_i, chapter_i |-> ch_i, part_i |-> pt_i,
        level |-> lvl, section_i |-> sec_i]

SortKeyTuple(sk) ==
    <<sk.title_i, sk.chapter_i, sk.part_i, sk.level, sk.section_i>>

\* the key= lambda of decorated.sort: x = (sort key, original index, row)
DecoratedKeyReversedIndex(sk, i) == SortKeyTuple(sk) \o <<0 - i>>

DecoratedKey(sk, i) == SortKeyTuple(sk) \o <<i>>

\* process_workbook, "# Sort": decorate, sort, undecorate (i is 0-based)
SortRows(rs) ==
    LET decorated == [i \in 1..Len(rs) |->
                        [k |-> DecoratedKey(_make_sort_key(rs[i]), i - 1),
                         v |-> rs[i]]]
        srt == ListSort(decorated)
    IN [i \in 1..Len(rs) |-> srt[i].v]

\* a RowKey that also holds the Key column
RowKeyWithKeyColumn(row, has_status) ==
    [jurisdiction |-> Upper(_s(row.jurisdiction)),
     title |-> _s(row.title),
     chapter |-> _s(row.chapter),
     part |-> _s(row.part),
     section |-> _norm_section_for_logic(row.section),
     value |-> _s(row.value),
     status |-> IF has_status THEN _s(row.status) ELSE <<>>,
     key |-> _s(row.key)]

\* _dedup_rows: the RowKey of a row
RowKey(row, has_status) ==
    [jurisdiction |-> Upper(_s(row.jurisdiction)),
     title |-> _s(row.title),
     chapter |-> _s(row.chapter),
     part |-> _s(row.part),
     section |-> _norm_section_for_logic(row.section),
     value |-> _s(row.value),
     status |-> IF has_status THEN _s(row.status) ELSE <<>>]

\* a dedup loop that remembers only the previous row's key
RECURSIVE DedupFromLastKeyOnly(_, _, _, _, _, _)
DedupFromLastKeyOnly(rs, has_status, i, seen, kept, removed) ==
    IF i > Len(rs) THEN <<kept, removed>>
    ELSE LET key == RowKey(rs[i], has_status) IN
         IF key \in seen
         THEN DedupFromLastKeyOnly(rs, has_status, i + 1, seen, kept,
                                   removed + 1)
         ELSE DedupFromLastKeyOnly(rs, has_status, i + 1, {key},
                                   Append(kept, rs[i]), removed)

RECURSIVE DedupFrom(_, _, _, _, _, _)
DedupFrom(rs, has_status, i, seen, kept, removed) ==
    IF i > Len(rs) THEN <<kept, removed>>
    ELSE LET key == RowKey(rs[i], has_status) IN
         IF key \in seen
         THEN DedupFrom(rs, has_status, i + 1, seen, kept, removed + 1)
         ELSE DedupFrom(rs, has_status, i + 1, seen \cup {key},
                        Append(kept, rs[i]), removed)

\* returns <<kept, removed>>
_dedup_rows(rs, has_status) == DedupFrom(rs, has_status, 1, {}, <<>>, 0)

\* a rewrite that empties a Section cell that is not all digits
RewriteRowBlanking(row) ==
    LET original == _s(row.section)
        normalized == _norm_section_for_logic(row.section)
    IN IF original # normalized
       THEN [row EXCEPT !.section = StrCell(<<>>)]
       ELSE row

\* _rewrite_section_cells: returns <<rows after the in-place rewrite, changed>>
RewriteRow(row) ==
    LET original == _s(row.section)
        normalized == _norm_section_for_logic(row.section)
    IN IF original # normalized
       THEN [row EXCEPT !.section = StrCell(normalized)]
       ELSE row

_rewrite_section_cells(rs) ==
    <<[i \in 1..Len(rs) |-> RewriteRow(rs[i])],
      Cardinality({i \in 1..Len(rs) : RewriteRow(rs[i]) # rs[i]})>>

----------------------------------------------------------------------------
(* _validate_rows.  A message is a record: the sheet row number it names   *)
(* (data rows start at 2), the kind of check and the value it quotes.      *)

TCA == <<"T", "C", "A">>

Msg(i, kind, val) == [row |-> i, kind |-> kind, val |-> val]

\* the Jurisdiction check of one row
JurisdictionErrorsExact(i, row) ==
    LET jur == _s(row.jurisdiction) IN
    IF jur # <<>> /\ jur # TCA
    THEN <<Msg(i, "Jurisdiction", jur)>> ELSE <<>>

JurisdictionErrors(i, row) ==
    LET jur == Upper(_s(row.jurisdiction)) IN
    IF jur # <<>> /\ jur # TCA
    THEN <<Msg(i, "Jurisdiction", jur)>> ELSE <<>>

TitleErrors(i, row) ==
    LET title == _s(row.title) IN
    IF title = <<>> THEN <<Msg(i, "MissingTitle", <<>>)>>
    ELSE IF ~IsDigit(_digits_only(title))
         THEN <<Msg(i, "TitleNotNumeric", title)>>
         ELSE <<>>

SectionErrors(i, row) ==
    LET sec == _norm_section_for_logic(row.section) IN
    IF sec # <<>> /\ ~IsDigit(sec)
    THEN <<Msg(i, "SectionNotNumeric", _s(row.section))>> ELSE <<>>

SectionWarnings(i, row) ==
    LET sec == _norm_section_for_logic(row.section) IN
    IF sec # <<>> /\ IsDigit(sec) /\ Len(sec) \notin {3, 4}
    THEN <<Msg(i, "SectionLength", sec)>> ELSE <<>>

HierarchyErrors(i, row) ==
    LET ch == _s(row.chapter)
        pt == _s(row.part)
        sec == _norm_section_for_logic(row.section)
    IN (IF pt # <<>> /\ ch = <<>>
        THEN <<Msg(i, "PartNoChapter", pt)>> ELSE <<>>)
       \o (IF sec # <<>> /\ ch = <<>>
           THEN <<Msg(i, "SectionNoChapter", sec)>> ELSE <<>>)

\* the errors of one row, in the order the loop body appends them
RowErrors(i, row) ==
    JurisdictionErrors(i, row) \o TitleErrors(i, row)
        \o SectionErrors(i, row) \o HierarchyErrors(i, row)

RECURSIVE BasicChecksFrom(_, _, _, _)
BasicChecksFrom(rs, n, errs, warns) ==
    IF n > Len(rs) THEN <<errs, warns>>
    ELSE BasicChecksFrom(rs, n + 1,
                         errs \o RowErrors(n + 1, rs[n]),
                         warns \o SectionWarnings(n + 1, rs[n]))

\* the strict_order loop: warn when a row's key is below the previous one's
RECURSIVE StrictOrderFrom(_, _, _)
StrictOrderFrom(rs, n, warns) ==
    IF n > Len(rs) THEN warns
    ELSE LET cur == SortKeyTuple(_make_sort_key(rs[n])) IN
         IF n > 1 /\ TupleLess(cur, SortKeyTuple(_make_sort_key(rs[n - 1])))
         THEN StrictOrderFrom(rs, n + 1,
                              Append(warns, Msg(n + 1, "Ordering", cur)))
         ELSE StrictOrderFrom(rs, n + 1, warns)

\* returns <<errors, warnings>>
_validate_rows(rs, strict_order) ==
    LET basic == BasicChecksFrom(rs, 1, <<>>, <<>>) IN
    <<basic[1],
      IF strict_order THEN StrictOrderFrom(rs, 1, basic[2]) ELSE basic[2]>>

\* _read_sheet_rows: the data rows that are not entirely blank
IsBlankRow(row) == \A v \in Cells(row) : _s(v) = <<>>

_read_sheet_rows(data) == SelectSeq(data, LAMBDA row : ~IsBlankRow(row))

----------------------------------------------------------------------------
(* tca_dictionary_sort.py: sort_dictionary_sheet *)

sort_to_int_or_default(v, default) ==
    IF v.t = "none" THEN default
    ELSE LET s == Strip(PyStr(v)) IN
         IF s = <<>> THEN default
         ELSE IF ParsesAsFloat(s) THEN IntOfFloat(s) ELSE default

CellText(v) == IF v.t = "none" THEN <<>> ELSE Strip(PyStr(v))

\* the RowSortKey built in the row loop
RowSortKey(values) ==
    LET title_i == sort_to_int_or_default(values.title, Sentinel)
        chapter_s == CellText(values.chapter)
        part_s == CellText(values.part)
        section_raw_s == CellText(values.section)
        section_s == IF section_raw_s # <<>> /\ ~IsDigit(section_raw_s)
                     THEN _digits_only(section_raw_s) ELSE section_raw_s
        level == _get_level(chapter_s, part_s, section_s)
    IN [title_i |-> title_i,
        chapter_i |-> sort_to_int_or_default(StrCell(chapter_s), Sentinel),
        part_i |-> sort_to_int_or_default(StrCell(part_s), Sentinel),
        level |-> level,
        section_i |-> sort_to_int_or_default(StrCell(section_s), Sentinel)]

SheetSortKeyReversedIndex(sk, i) == SortKeyTuple(sk) \o <<0 - i>>

\* the key= lambda of data_rows.sort
SheetSortKey(sk, i) == SortKeyTuple(sk) \o <<i>>

\* the rows written back: blank rows skipped, the rest sorted
sort_dictionary_sheet(data) ==
    LET vals == SelectSeq(data,
                    LAMBDA row : ~(\A v \in Cells(row) :
                                     v.t = "none" \/ Strip(PyStr(v)) = <<>>))
        data_rows == [i \in 1..Len(vals) |->
                        [k |-> SheetSortKey(RowSortKey(vals[i]), i - 1),
                         v |-> vals[i]]]
        srt == ListSort(data_rows)
    IN [i \in 1..Len(vals) |-> srt[i].v]

----------------------------------------------------------------------------
(* tca_dictionary_validate.py.  Optional[int] None is NoneInt; the cells   *)
(* drawn hold no negative numbers.                                         *)

NoneInt == -1

\* float.is_integer() on the repr of a float: no non-zero fraction digit
FloatIsInteger(s) ==
    LET dots == {i \in 1..Len(s) : s[i] = "."} IN
    \A i \in 1..Len(s) : (\E d \in dots : i > d) => s[i] = "0"

_to_int(v) ==
    IF v.t = "none" THEN NoneInt
    ELSE IF v.t = "int" THEN IntOfFloat(v.s)
    ELSE IF v.t = "float" /\ FloatIsInteger(v.s) THEN IntOfFloat(v.s)
    ELSE LET s == Strip(PyStr(v)) IN
         IF s = <<>> THEN NoneInt
         ELSE IF IsDigit(s) THEN ToNat(s)
         ELSE NoneInt

Issue(row, column, message, a, b) ==
    [row |-> row, column |-> column, message |-> message, a |-> a, b |-> b]

\* x is None or str(x).strip() == ""
BlankCell(v) == v.t = "none" \/ Strip(PyStr(v)) = <<>>

\* the hierarchy state carried from row to row
WalkState(seen, title, chapter, part, iss) ==
    [seen_title_row |-> seen, current_title |-> title,
     current_chapter |-> chapter, current_part |-> part, issues |-> iss]

\* the Jurisdiction check of the row loop
JurisdictionIssues(rn, row) ==
    IF Strip(PyStr(row.jurisdiction)) # TCA
    THEN <<Issue(rn, "Jurisdiction", "Expected", PyStr(row.jurisdiction),
                 TCA)>>
    ELSE <<>>

\* is_section_row: the Section row's hierarchy checks
SectionRowIssuesNoMismatch(rn, chap, part, cur_chapter, cur_part) ==
    (IF cur_chapter = NoneInt
     THEN <<Issue(rn, "Hierarchy", "SectionBeforeChapter", NoneInt, NoneInt)>>
     ELSE <<>>)
    \o (IF part # NoneInt
        THEN IF cur_part = NoneInt
             THEN <<Issue(rn, "Hierarchy", "SectionPartNoPartRow",
                          NoneInt, NoneInt)>>
             ELSE IF part # cur_part
             THEN <<Issue(rn, "Hierarchy", "SectionPartMismatch",
                          part, cur_part)>>
             ELSE <<>>
        ELSE <<>>)

SectionRowIssues(rn, chap, part, cur_chapter, cur_part) ==
    (IF cur_chapter = NoneInt
     THEN <<Issue(rn, "Hierarchy", "SectionBeforeChapter", NoneInt, NoneInt)>>
     ELSE IF chap # cur_chapter
     THEN <<Issue(rn, "Hierarchy", "SectionChapterMismatch",
                  chap, cur_chapter)>>
     ELSE <<>>)
    \o (IF part # NoneInt
        THEN IF cur_part = NoneInt
             THEN <<Issue(rn, "Hierarchy", "SectionPartNoPartRow",
                          NoneInt, NoneInt)>>
             ELSE IF part # cur_part
             THEN <<Issue(rn, "Hierarchy", "SectionPartMismatch",
                          part, cur_part)>>
             ELSE <<>>
        ELSE <<>>)

\* one iteration of the first row loop: sheet row rn holding `row`
WalkRow(st, rn, row) ==
    LET jur == row.jurisdiction
        title == _to_int(row.title)
        chap == _to_int(row.chapter)
        part == _to_int(row.part)
        sec_raw == row.section
        val == row.value
        blank == /\ BlankCell(jur) /\ title = NoneInt /\ chap = NoneInt
                 /\ part = NoneInt /\ BlankCell(sec_raw) /\ BlankCell(val)
        is_title_row == /\ title # NoneInt /\ chap = NoneInt
                        /\ part = NoneInt
                        /\ sec_raw \in {NoneCell, StrCell(<<>>),
                                        StrCell(<<" ">>)}
        title_issues ==
            IF title = NoneInt
            THEN <<Issue(rn, "Title", "TitleRequired", NoneInt, NoneInt)>>
            ELSE IF is_title_row
            THEN IF st.seen_title_row /\ title # st.current_title
                 THEN <<Issue(rn, "Title", "MultipleTitleRows",
                              title, st.current_title)>>
                 ELSE <<>>
            ELSE IF ~st.seen_title_row
                 THEN <<Issue(rn, "Hierarchy", "BeforeTitleRow",
                              NoneInt, NoneInt)>>
                 ELSE <<>>
        \* state after the Title block
        seen1 == st.seen_title_row \/ is_title_row
        title1 == IF is_title_row THEN title ELSE st.current_title
        chapter1 == IF is_title_row THEN NoneInt ELSE st.current_chapter
        part1 == IF is_title_row THEN NoneInt ELSE st.current_part
        sec_s == Strip(PyStr(sec_raw))
        sec_given == ~BlankCell(sec_raw)
        sec == IF sec_given /\ SECTION_RE(sec_s) THEN ToNat(sec_s)
               ELSE NoneInt
        section_issues ==
            IF sec_given /\ ~SECTION_RE(sec_s)
            THEN <<Issue(rn, "Section", "SectionFormat", PyStr(sec_raw),
                         NoneInt)>>
            ELSE <<>>
        is_chapter_row == chap # NoneInt /\ part = NoneInt /\ sec = NoneInt
        is_part_row == chap # NoneInt /\ part # NoneInt /\ sec = NoneInt
        is_section_row == chap # NoneInt /\ sec # NoneInt
        chapter_issues ==
            IF is_chapter_row /\ ~seen1
            THEN <<Issue(rn, "Hierarchy", "ChapterBeforeTitle",
                         NoneInt, NoneInt)>>
            ELSE <<>>
        \* state after the Chapter block
        chapter2 == IF is_chapter_row THEN chap ELSE chapter1
        part2 == IF is_chapter_row THEN NoneInt ELSE part1
        part_issues ==
            IF ~is_part_row THEN <<>>
            ELSE IF chapter2 = NoneInt
            THEN <<Issue(rn, "Hierarchy", "PartBeforeChapter",
                         NoneInt, NoneInt)>>
            ELSE IF chap # chapter2
            THEN <<Issue(rn, "Hierarchy", "PartChapterMismatch",
                         chap, chapter2)>>
            ELSE <<>>
        part3 == IF is_part_row THEN part ELSE part2
        sec_row_issues ==
            IF is_section_row
            THEN SectionRowIssues(rn, chap, part, chapter2, part3)
            ELSE <<>>
        orphan_issues ==
            (IF chap = NoneInt /\ part # NoneInt
             THEN <<Issue(rn, "Part", "PartNoChapter", NoneInt, NoneInt)>>
             ELSE <<>>)
            \o (IF chap = NoneInt /\ sec # NoneInt
                THEN <<Issue(rn, "Section", "SectionNoChapter",
                             NoneInt, NoneInt)>>
                ELSE <<>>)
        value_issues ==
            IF BlankCell(val)
            THEN <<Issue(rn, "Value", "ValueBlank", NoneInt, NoneInt)>>
            ELSE <<>>
    IN IF blank THEN st
       ELSE WalkState(seen1, title1, chapter2, part3,
                      st.issues \o JurisdictionIssues(rn, row)
                        \o title_issues \o section_issues \o chapter_issues
                        \o part_issues \o sec_row_issues \o orphan_issues
                        \o value_issues)

\* the row classes of the part-ordering passes
SecPresent(row) == ~BlankCell(row.section)

IsPartRowForScan(row) ==
    _to_int(row.chapter) # NoneInt /\ _to_int(row.part) # NoneInt
        /\ ~SecPresent(row)

\* has_any_parts
HasAnyParts(data) == \E n \in 1..Len(data) : IsPartRowForScan(data[n])

\* the keys of chapter_has_parts
ChapterHasParts(data) ==
    {_to_int(data[n].chapter) : n \in {m \in 1..Len(data) :
                                         IsPartRowForScan(data[m])}}

\* an iteration that does not consult chapter_has_parts
PartWalkRowWithoutPrescan(started, iss, uses_parts, rn, row) ==
    LET chap == _to_int(row.chapter)
        started1 == IF IsPartRowForScan(row) THEN started \cup {chap}
                    ELSE started
    IN <<started1,
         IF chap # NoneInt /\ SecPresent(row) /\ chap \notin started1
         THEN Append(iss, Issue(rn, "Hierarchy", "SectionBeforePart",
                                chap, NoneInt))
         ELSE iss>>

\* one iteration of the last row loop; started is the key set of
\* chapter_part_started; returns <<started, issues>>
PartWalkRow(started, iss, uses_parts, rn, row) ==
    LET chap == _to_int(row.chapter)
        started1 == IF IsPartRowForScan(row) THEN started \cup {chap}
                    ELSE started
    IN <<started1,
         IF chap # NoneInt /\ SecPresent(row) /\ chap \in uses_parts
              /\ chap \notin started1
         THEN Append(iss, Issue(rn, "Hierarchy", "SectionBeforePart",
                                chap, NoneInt))
         ELSE iss>>

RECURSIVE WalkFrom(_, _, _)
WalkFrom(data, n, st) ==
    IF n > Len(data) THEN st
    ELSE WalkFrom(data, n + 1, WalkRow(st, n + 1, data[n]))

RECURSIVE PartWalkFrom(_, _, _, _)
PartWalkFrom(data, n, started, iss) ==
    IF n > Len(data) THEN iss
    ELSE LET nx == PartWalkRow(started, iss, ChapterHasParts(data),
                               n + 1, data[n])
         IN PartWalkFrom(data, n + 1, nx[1], nx[2])

\* validate_workbook on a workbook whose Dictionary sheet and headers exist
validate_workbook(data) ==
    LET st == WalkFrom(data, 1,
                       WalkState(FALSE, NoneInt, NoneInt, NoneInt, <<>>))
    IN IF HasAnyParts(data) THEN PartWalkFrom(data, 1, {}, st.issues)
       ELSE st.issues

----------------------------------------------------------------------------
(* Inputs *)

MaxSortRows == 3
MaxDedupRows == 3
MaxValidateRows == 2

\* all sequences over S of length at most n
SeqsUpTo(S, n) == UNION {[1..m -> S] : m \in 0..n}

\* the orderings of the elements of S
Orderings(S) ==
    {seq \in [1..Cardinality(S) -> S] :
        \A i, j \in 1..Cardinality(S) : seq[i] = seq[j] => i = j}

Tca == StrCell(TCA)
Val(c) == StrCell(<<c>>)

\* the four rows of the documented hierarchy, Title 35 / Chapter 3
TitleRow == Row(Tca, IntCell(<<"3", "5">>), NoneCell, NoneCell, NoneCell,
                NoneCell, Val("t"), NoneCell)
ChapterRow == Row(Tca, IntCell(<<"3", "5">>), IntCell(<<"3">>), NoneCell,
                  NoneCell, NoneCell, Val("c"), NoneCell)
PartRow == Row(Tca, IntCell(<<"3", "5">>), IntCell(<<"3">>), IntCell(<<"1">>),
               NoneCell, NoneCell, Val("p"), NoneCell)
SectionRow == Row(Tca, IntCell(<<"3", "5">>), IntCell(<<"3">>), NoneCell,
                  StrCell(<<"0", "3", "0", "1">>), NoneCell, Val("s"),
                  NoneCell)

ExampleRows == {TitleRow, ChapterRow, PartRow, SectionRow}

\* the Chapter row again, under another Key
ChapterRowKeyed == [ChapterRow EXCEPT !.key = Val("k")]
\* the Section row as a hyphenated, lower-case, padded variant with a Status
SectionRowVariant ==
    [SectionRow EXCEPT !.jurisdiction = StrCell(<<"t", "c", "a", " ">>),
                       !.section = StrCell(<<"0", "3", "-", "0", "1">>),
                       !.status = Val("x")]
\* a Part without a Chapter, float Title "35.0"
OrphanPartRow == Row(StrCell(<<"U", "S">>),
                     FloatCell(<<"3", "5", ".", "0">>), NoneCell,
                     IntCell(<<"2">>), NoneCell, NoneCell, NoneCell, NoneCell)

BlankRow == Row(NoneCell, NoneCell, NoneCell, NoneCell, NoneCell, NoneCell,
                NoneCell, NoneCell)

SortRowSet == ExampleRows \cup {ChapterRowKeyed, SectionRowVariant,
                                OrphanPartRow}

DedupRowSet == {ChapterRow, ChapterRowKeyed, SectionRow, SectionRowVariant,
                [SectionRow EXCEPT !.value = Val("z")],
                [ChapterRow EXCEPT !.title = StrCell(<<" ", "3", "5">>)],
                [ChapterRow EXCEPT !.title = StrCell(<<"3", "5", ".", "0">>)]}

JurisdictionCells == {NoneCell, Tca, StrCell(<<>>), StrCell(<<"t", "c", "a">>),
                      StrCell(<<" ", "T", "c", "a">>), StrCell(<<"U", "S">>),
                      StrCell(<<"t", "c", "a", "x">>)}

ValidateRowSet ==
    {[row EXCEPT !.jurisdiction = j] :
        row \in {SectionRowVariant, OrphanPartRow},
        j \in JurisdictionCells}
    \cup {BlankRow}

\* Section cells: absent, blank, digits of several lengths, hyphenated,
\* padded, letters only, mixed, and numeric cells
SectionCells ==
    {NoneCell, StrCell(<<>>), StrCell(<<" ">>),
     StrCell(<<"0", "3", "0", "1">>), StrCell(<<"3", "0", "1">>),
     StrCell(<<"0", "3", "-", "0", "1">>),
     StrCell(<<" ", "0", "3", "0", "1", " ">>),
     StrCell(<<"1", "2">>), StrCell(<<"1", "-", "2">>),
     StrCell(<<"1", "2", "3", "4", "5">>),
     StrCell(<<"a", "b">>), StrCell(<<"3", "a">>),
     IntCell(<<"3", "0", "1">>), FloatCell(<<"3", "0", "1", ".", "0">>)}

\* one row per combination of Chapter, Part and Section cells: a Chapter
\* or none, an integer Part, a lettered Part or none, a plain or hyphenated
\* Section or none
HierarchyRowSet ==
    {[TitleRow EXCEPT !.chapter = c, !.part = p, !.section = s] :
        c \in {NoneCell, IntCell(<<"3">>)},
        p \in {NoneCell, IntCell(<<"2">>), StrCell(<<"A">>)},
        s \in {NoneCell, StrCell(<<"0", "3", "0", "1">>),
               StrCell(<<"0", "3", "-", "0", "1">>)}}

LevelStrings == {<<>>, <<"3">>, <<"5">>, <<"0", "3", "0", "1">>}

LevelCalls(fn) ==
    {[fn |-> fn, chapter |-> c, part |-> p, section |-> s] :
        c \in LevelStrings, p \in LevelStrings, s \in LevelStrings}

Calls ==
    LevelCalls("_level") \cup LevelCalls("_get_level")
    \cup {[fn |-> f, rows |-> rs] :
            f \in {"sort", "sort_dictionary_sheet"},
            rs \in SeqsUpTo(SortRowSet, MaxSortRows)
                     \cup Orderings(ExampleRows)}
    \cup {[fn |-> "_dedup_rows", rows |-> rs, has_status |-> h] :
            rs \in SeqsUpTo(DedupRowSet, MaxDedupRows), h \in BOOLEAN}
    \cup {[fn |-> "_validate_rows", rows |-> rs, strict_order |-> so] :
            rs \in SeqsUpTo(ValidateRowSet, MaxValidateRows), so \in BOOLEAN}
    \cup {[fn |-> "_norm_section_for_logic", section_raw |-> c] :
            c \in SectionCells}
    \cup {[fn |-> "_validate_rows",
           rows |-> <<[SectionRow EXCEPT !.section = c, !.chapter = ch]>>,
           strict_order |-> FALSE] :
            c \in SectionCells, ch \in {NoneCell, IntCell(<<"3">>)}}
    \cup {[fn |-> "validate_workbook", rows |-> rs] :
            rs \in SeqsUpTo(ValidateRowSet, MaxValidateRows)}
    \cup {[fn |-> "_validate_rows", rows |-> <<row>>, strict_order |-> FALSE] :
            row \in HierarchyRowSet}
    \cup {[fn |-> "validate_workbook", rows |-> <<row>>] :
            row \in HierarchyRowSet}

----------------------------------------------------------------------------
(* Specification of the pure functions: a call is drawn, then it returns *)

NotStarted == "off"

PipelineOff ==
    /\ wb = NotStarted /\ opts = NotStarted /\ pc = NotStarted
    /\ rows = <<>> /\ errors = <<>> /\ warnings = <<>>
    /\ removed_dups = 0 /\ section_changes = 0 /\ ws = <<>>
    /\ saved = NotStarted /\ exit_code = NoneInt /\ stages = <<>>

FunctionsOff == input = NotStarted /\ op = NotStarted /\ output = NotStarted

ValidatorOff ==
    /\ sheet = <<>> /\ vpc = NotStarted /\ r = 0
    /\ seen_title_row = FALSE /\ current_title = NoneInt
    /\ current_chapter = NoneInt /\ current_part = NoneInt
    /\ has_any_parts = FALSE /\ chapter_has_parts = {}
    /\ chapter_part_started = {} /\ issues = <<>>

InitFn ==
    /\ input \in Calls
    /\ op = "call"
    /\ output = NotStarted
    /\ PipelineOff /\ ValidatorOff

Return(fn, result) ==
    /\ op = "call"
    /\ input.fn = fn
    /\ op' = "return"
    /\ output' = result
    /\ UNCHANGED <<input, pvars, vvars>>

CallLevel ==
    Return("_level", _level(input.chapter, input.part, input.section))

CallGetLevel ==
    Return("_get_level",
           _get_level(input.chapter, input.part, input.section))

CallNormSection ==
    Return("_norm_section_for_logic",
           _norm_section_for_logic(input.section_raw))

CallSort == Return("sort", SortRows(input.rows))

CallSortSheet ==
    Return("sort_dictionary_sheet", sort_dictionary_sheet(input.rows))

CallDedup ==
    Return("_dedup_rows", _dedup_rows(input.rows, input.has_status))

CallValidateRows ==
    Return("_validate_rows", _validate_rows(input.rows, input.strict_order))

CallValidateWorkbook ==
    Return("validate_workbook", validate_workbook(input.rows))

NextFn ==
    \/ CallLevel
    \/ CallGetLevel
    \/ CallNormSection
    \/ CallSort
    \/ CallSortSheet
    \/ CallDedup
    \/ CallValidateRows
    \/ CallValidateWorkbook

SpecFn == InitFn /\ [][NextFn]_vars

----------------------------------------------------------------------------
(* Specification of validate_workbook, one loop iteration per step *)

MaxSheetRows == 4

VRow(c, p, s) ==
    Row(Tca, IntCell(<<"3", "5">>), c, p, s, NoneCell, Val("v"), NoneCell)

SheetRowSet ==
    {VRow(NoneCell, NoneCell, NoneCell),
     VRow(IntCell(<<"5">>), NoneCell, NoneCell),
     VRow(IntCell(<<"6">>), NoneCell, NoneCell),
     VRow(IntCell(<<"5">>), IntCell(<<"1">>), NoneCell),
     VRow(IntCell(<<"5">>), NoneCell, StrCell(<<"0", "5", "0", "1">>)),
     VRow(IntCell(<<"6">>), NoneCell, StrCell(<<"0", "6", "0", "1">>)),
     VRow(IntCell(<<"6">>), NoneCell, StrCell(<<"0", "6", "-", "0", "1">>))}

Workbooks ==
    {[present |-> FALSE, headers |-> FALSE, data |-> <<>>],
     [present |-> TRUE, headers |-> FALSE, data |-> <<>>]}
    \cup {[present |-> TRUE, headers |-> TRUE, data |-> d] :
            d \in SeqsUpTo(SheetRowSet, MaxSheetRows)}

\* ws.max_row
max_row == Len(sheet.data) + 1

InitVal ==
    /\ sheet \in Workbooks
    /\ vpc = "open"
    /\ r = 0
    /\ seen_title_row = FALSE
    /\ current_title = NoneInt
    /\ current_chapter = NoneInt
    /\ current_part = NoneInt
    /\ has_any_parts = FALSE
    /\ chapter_has_parts = {}
    /\ chapter_part_started = {}
    /\ issues = <<>>
    /\ PipelineOff /\ FunctionsOff

\* load the workbook, find the sheet and the headers
ValOpen ==
    /\ vpc = "open"
    /\ IF ~sheet.present
       THEN /\ issues' = <<Issue(0, "Sheet", "MissingSheet", NoneInt, NoneInt)>>
            /\ vpc' = "done"
            /\ r' = r
       ELSE IF ~sheet.headers
       THEN /\ issues' = <<Issue(1, "Header", "MissingHeader",
                                 NoneInt, NoneInt)>>
            /\ vpc' = "done"
            /\ r' = r
       ELSE /\ issues' = issues
            /\ vpc' = "walk"
            /\ r' = 2
    /\ UNCHANGED <<sheet, seen_title_row, current_title, current_chapter,
                   current_part, has_any_parts, chapter_has_parts,
                   chapter_part_started, pvars, fvars>>

\* one iteration of `for r in range(2, ws.max_row + 1)`, first loop
ValWalkRow ==
    /\ vpc = "walk"
    /\ r <= max_row
    /\ LET st == WalkRow(WalkState(seen_title_row, current_title,
                                   current_chapter, current_part, issues),
                         r, sheet.data[r - 1])
       IN /\ seen_title_row' = st.seen_title_row
          /\ current_title' = st.current_title
          /\ current_chapter' = st.current_chapter
          /\ current_part' = st.current_part
          /\ issues' = st.issues
    /\ r' = r + 1
    /\ UNCHANGED <<sheet, vpc, has_any_parts, chapter_has_parts,
                   chapter_part_started, pvars, fvars>>

\* the has_any_parts scan and, with parts, the chapter_has_parts scan
ValScan ==
    /\ vpc = "walk"
    /\ r > max_row
    /\ has_any_parts' = HasAnyParts(sheet.data)
    /\ IF HasAnyParts(sheet.data)
       THEN /\ chapter_has_parts' = ChapterHasParts(sheet.data)
            /\ current_chapter' = NoneInt
            /\ current_part' = NoneInt
            /\ vpc' = "partwalk"
            /\ r' = 2
       ELSE /\ vpc' = "done"
            /\ UNCHANGED <<chapter_has_parts, current_chapter, current_part,
                           r>>
    /\ UNCHANGED <<sheet, seen_title_row, current_title,
                   chapter_part_started, issues, pvars, fvars>>

\* one iteration of the last row loop
ValPartWalkRow ==
    /\ vpc = "partwalk"
    /\ r <= max_row
    /\ LET row == sheet.data[r - 1]
           chap == _to_int(row.chapter)
           part == _to_int(row.part)
           nx == PartWalkRow(chapter_part_started, issues, chapter_has_parts,
                             r, row)
       IN /\ chapter_part_started' = nx[1]
          /\ issues' = nx[2]
          /\ current_chapter' =
                IF chap # NoneInt /\ ~SecPresent(row) THEN chap
                ELSE current_chapter
          /\ current_part' =
                IF chap # NoneInt /\ ~SecPresent(row) THEN part
                ELSE current_part
    /\ r' = r + 1
    /\ UNCHANGED <<sheet, vpc, seen_title_row, current_title, has_any_parts,
                   chapter_has_parts, pvars, fvars>>

ValReturn ==
    /\ vpc = "partwalk"
    /\ r > max_row
    /\ vpc' = "done"
    /\ UNCHANGED <<sheet, r, seen_title_row, current_title, current_chapter,
                   current_part, has_any_parts, chapter_has_parts,
                   chapter_part_started, issues, pvars, fvars>>

NextVal ==
    \/ ValOpen
    \/ ValWalkRow
    \/ ValScan
    \/ ValPartWalkRow
    \/ ValReturn

SpecVal == InitVal /\ [][NextVal]_vars

\* the stepwise walk returns what validate_workbook computes
ValAgrees == vpc = "done" /\ sheet.headers => issues = validate_workbook(sheet.data)

----------------------------------------------------------------------------
(* Specification of process_workbook, one stage per step *)

MaxRows == 2

\* a Section of two digits once normalized: a warning, not an error
ShortSectionRow == [SectionRow EXCEPT !.section = StrCell(<<"3", "-", "1">>)]

PipelineRowSet == {TitleRow, SectionRow, SectionRowVariant, ShortSectionRow,
                   OrphanPartRow, BlankRow}

\* a sheet without a Status column has no Status cells
WithColumns(row, has_status) ==
    IF has_status THEN row ELSE [row EXCEPT !.status = NoneCell]

WorkbookFiles ==
    {[sheet_present |-> FALSE, header_ok |-> TRUE, missing |-> FALSE,
      has_status |-> TRUE, data |-> <<>>],
     [sheet_present |-> TRUE, header_ok |-> FALSE, missing |-> FALSE,
      has_status |-> TRUE, data |-> <<>>],
     [sheet_present |-> TRUE, header_ok |-> TRUE, missing |-> TRUE,
      has_status |-> TRUE, data |-> <<>>]}
    \cup {[sheet_present |-> TRUE, header_ok |-> TRUE, missing |-> FALSE,
           has_status |-> h,
           data |-> [n \in 1..Len(d) |-> WithColumns(d[n], h)]] :
            h \in BOOLEAN, d \in SeqsUpTo(PipelineRowSet, MaxRows)}

Options ==
    [do_sort : BOOLEAN, do_dedup : BOOLEAN, strict_order : BOOLEAN,
     rewrite_section : BOOLEAN, fail_fast : BOOLEAN]

Init ==
    /\ wb \in WorkbookFiles
    /\ opts \in Options
    /\ pc = "load"
    /\ rows = <<>>
    /\ errors = <<>>
    /\ warnings = <<>>
    /\ removed_dups = 0
    /\ section_changes = 0
    /\ ws = <<>>
    /\ saved = [done |-> FALSE, data |-> <<>>]
    /\ exit_code = NoneInt
    /\ stages = <<>>
    /\ FunctionsOff /\ ValidatorOff

\* load_workbook .. the required-columns check: a missing sheet, an empty
\* header or a missing required column raises ValueError
Load ==
    /\ pc = "load"
    /\ IF ~wb.sheet_present \/ ~wb.header_ok \/ wb.missing
       THEN /\ pc' = "raised"
            /\ UNCHANGED <<rows, ws>>
       ELSE /\ ws' = wb.data
            /\ rows' = _read_sheet_rows(wb.data)
            /\ pc' = "validate1"
    /\ UNCHANGED <<wb, opts, errors, warnings, removed_dups, section_changes,
                   saved, exit_code, stages, fvars, vvars>>

\* `if fail_fast:`, the errors not consulted
FailFastWithoutErrors(fail_fast, errs) == fail_fast

\* `if fail_fast and errors:`
FailFast(fail_fast, errs) == fail_fast /\ errs # <<>>

\* "# Initial validation" and the fail-fast return
Validate1 ==
    /\ pc = "validate1"
    /\ LET res == _validate_rows(rows, opts.strict_order) IN
       /\ errors' = res[1]
       /\ warnings' = res[2]
       /\ IF FailFast(opts.fail_fast, res[1])
          THEN pc' = "done" /\ exit_code' = 2
          ELSE pc' = "sort" /\ exit_code' = exit_code
    /\ stages' = Append(stages, "validate1")
    /\ UNCHANGED <<wb, opts, rows, removed_dups, section_changes, ws, saved,
                   fvars, vvars>>

\* "# Sort"
SortStage ==
    /\ pc = "sort"
    /\ IF opts.do_sort
       THEN rows' = SortRows(rows) /\ stages' = Append(stages, "sort")
       ELSE UNCHANGED <<rows, stages>>
    /\ pc' = "dedup"
    /\ UNCHANGED <<wb, opts, errors, warnings, removed_dups, section_changes,
                   ws, saved, exit_code, fvars, vvars>>

\* "# Deduplicate"
DedupStage ==
    /\ pc = "dedup"
    /\ IF opts.do_dedup
       THEN LET res == _dedup_rows(rows, wb.has_status) IN
            /\ rows' = res[1]
            /\ removed_dups' = res[2]
            /\ stages' = Append(stages, "dedup")
       ELSE UNCHANGED <<rows, removed_dups, stages>>
    /\ pc' = "rewrite"
    /\ UNCHANGED <<wb, opts, errors, warnings, section_changes, ws, saved,
                   exit_code, fvars, vvars>>

\* "# Optional rewrite of Section values"
RewriteStage ==
    /\ pc = "rewrite"
    /\ IF opts.rewrite_section
       THEN LET res == _rewrite_section_cells(rows) IN
            /\ rows' = res[1]
            /\ section_changes' = res[2]
            /\ stages' = Append(stages, "rewrite")
       ELSE UNCHANGED <<rows, section_changes, stages>>
    /\ pc' = "validate2"
    /\ UNCHANGED <<wb, opts, errors, warnings, removed_dups, ws, saved,
                   exit_code, fvars, vvars>>

\* a second pass that takes the caller's strict_order flag
Pass2StrictOrderOfCaller(strict_order) == strict_order

\* `strict_order=False` of the second _validate_rows call
Pass2StrictOrder(strict_order) == FALSE

\* "# Re-validate after transformations"
Validate2 ==
    /\ pc = "validate2"
    /\ LET res == _validate_rows(rows, Pass2StrictOrder(opts.strict_order)) IN
       /\ errors' = errors \o res[1]
       /\ warnings' = warnings \o res[2]
    /\ stages' = Append(stages, "validate2")
    /\ pc' = "replace"
    /\ UNCHANGED <<wb, opts, rows, removed_dups, section_changes, ws, saved,
                   exit_code, fvars, vvars>>

\* "# Rewrite sheet content": delete the data rows, append `rows`
ReplaceDataRows ==
    /\ pc = "replace"
    /\ ws' = rows
    /\ stages' = Append(stages, "replace")
    /\ pc' = "save"
    /\ UNCHANGED <<wb, opts, rows, errors, warnings, removed_dups,
                   section_changes, saved, exit_code, fvars, vvars>>

\* "# Save"
Save ==
    /\ pc = "save"
    /\ saved' = [done |-> TRUE, data |-> ws]
    /\ stages' = Append(stages, "save")
    /\ pc' = "report"
    /\ UNCHANGED <<wb, opts, rows, errors, warnings, removed_dups,
                   section_changes, ws, exit_code, fvars, vvars>>

\* the return value of the report that counts warnings as errors
ReportExitCodeCountingWarnings(errs, warns) ==
    IF errs # <<>> \/ warns # <<>> THEN 2 ELSE 0

\* the return value of "# Report": 2 with errors, else 0
ReportExitCode(errs, warns) == IF errs # <<>> THEN 2 ELSE 0

\* "# Report" and the return
Report ==
    /\ pc = "report"
    /\ exit_code' = ReportExitCode(errors, warnings)
    /\ pc' = "done"
    /\ UNCHANGED <<wb, opts, rows, errors, warnings, removed_dups,
                   section_changes, ws, saved, stages, fvars, vvars>>

Next ==
    \/ Load
    \/ Validate1
    \/ SortStage
    \/ DedupStage
    \/ RewriteStage
    \/ Validate2
    \/ ReplaceDataRows
    \/ Save
    \/ Report

Spec == Init /\ [][Next]_vars

----------------------------------------------------------------------------
(* Claims about process_workbook (Spec) *)

Loaded == pc \notin {"load", "raised"}

\* what the first validation pass reports for the workbook
Pass1 == _validate_rows(_read_sheet_rows(wb.data), opts.strict_order)

Ran(stage) == \E n \in 1..Len(stages) : stages[n] = stage

\* C2: with fail-fast on and an error in pass 1, the run returns 2 at once
\* and sort, dedup, section rewrite, data replacement and save never happen;
\* with fail-fast on and only warnings in pass 1, the run goes on to the
\* write.
C2_FailFast ==
    /\ opts.fail_fast /\ Loaded /\ pc # "validate1" /\ Pass1[1] # <<>>
          => /\ pc = "done"
             /\ exit_code = 2
             /\ stages = <<"validate1">>
             /\ rows = _read_sheet_rows(wb.data)
             /\ ws = wb.data
             /\ ~saved.done
    /\ opts.fail_fast /\ Loaded /\ pc # "validate1" /\ Pass1[1] = <<>>
          => /\ pc \in {"sort", "dedup", "rewrite", "validate2", "replace",
                        "save", "report", "done"}
             /\ pc \in {"report", "done"}
                   => Ran("replace") /\ Ran("save") /\ saved.done

\* C2 witness: a fail-fast run with sort and dedup requested has returned
\* after pass 1
C2_Witness ==
    /\ pc = "done"
    /\ opts.fail_fast /\ opts.do_sort /\ opts.do_dedup /\ opts.rewrite_section
    /\ Len(_read_sheet_rows(wb.data)) >= 2
    /\ Pass1[1] # <<>>
    /\ exit_code = 2
    /\ ~saved.done

\* C3: a run that meets no fatal condition returns 2 exactly when the
\* accumulated errors (pass 1 plus pass 2) are non-empty and 0 otherwise,
\* whatever the warnings; and when it returns 2 without fail-fast having
\* triggered, the output was written first.
C3_ExitCode ==
    /\ pc = "done" =>
          /\ exit_code = IF errors # <<>> THEN 2 ELSE 0
          /\ exit_code = 2 /\ ~(opts.fail_fast /\ Pass1[1] # <<>>)
                => saved.done /\ saved.data = rows
    /\ pc # "done" => exit_code = NoneInt

\* C3 witness: a run without fail-fast returned 2 after writing, with
\* warnings reported too
C3_Witness ==
    /\ pc = "done"
    /\ ~opts.fail_fast
    /\ exit_code = 2
    /\ warnings # <<>>
    /\ saved.done

\* the documented order of the stages
StageOrder ==
    <<"validate1", "sort", "dedup", "rewrite", "validate2", "replace", "save">>

StageIndex(stage) == CHOOSE k \in 1..Len(StageOrder) : StageOrder[k] = stage

\* the run left by the fail-fast return after pass 1
FailFastReturn == opts.fail_fast /\ Pass1[1] # <<>>

\* the strict-order warnings of a list of warnings
OrderingWarnings(warns) == SelectSeq(warns, LAMBDA m : m.kind = "Ordering")

\* the rows the transformations selected by the options make of the rows
\* read, the strict_order option playing no part
TransformedRows ==
    LET read == _read_sheet_rows(wb.data)
        sorted == IF opts.do_sort THEN SortRows(read) ELSE read
        kept == IF opts.do_dedup THEN _dedup_rows(sorted, wb.has_status)[1]
                ELSE sorted
    IN IF opts.rewrite_section THEN _rewrite_section_cells(kept)[1] ELSE kept

\* C14: in every completed run the stages occur in the order validate
\* (pass 1), optional sort, optional dedup, optional section rewrite,
\* validate (pass 2), replace data rows, save: dedup never runs before
\* sort, the write never precedes pass 2, and pass 2 runs with strict
\* order disabled whatever the caller's flag, so strict-order warnings come
\* from pass 1 alone and never alter the rows written.
C14_StageOrder ==
    /\ \A i, j \in 1..Len(stages) :
          i < j => StageIndex(stages[i]) < StageIndex(stages[j])
    /\ pc = "done" /\ ~FailFastReturn =>
          /\ \A s \in {"validate1", "validate2", "replace", "save"} : Ran(s)
          /\ Ran("sort") <=> opts.do_sort
          /\ Ran("dedup") <=> opts.do_dedup
          /\ Ran("rewrite") <=> opts.rewrite_section
    /\ Loaded /\ pc # "validate1" =>
          /\ OrderingWarnings(warnings) = OrderingWarnings(Pass1[2])
          /\ ~opts.strict_order => OrderingWarnings(warnings) = <<>>
    /\ saved.done => Ran("validate2") /\ saved.data = TransformedRows

\* C14 witness: a run with strict order, sort, dedup and rewrite requested
\* has returned after all seven stages, pass 1 having warned about the
\* order of the rows read
C14_Witness ==
    /\ pc = "done"
    /\ opts.strict_order
    /\ stages = StageOrder
    /\ OrderingWarnings(Pass1[2]) # <<>>
    /\ OrderingWarnings(warnings) = OrderingWarnings(Pass1[2])
    /\ saved.done
    /\ saved.data # _read_sheet_rows(wb.data)

----------------------------------------------------------------------------
(* Claims about the pure functions (SpecFn) *)

Returned(fn) == op = "return" /\ input.fn = fn

\* the sort key each sorter computes for a row
KeyUsedBy(fn, row) ==
    IF fn = "sort" THEN SortKeyTuple(_make_sort_key(row))
    ELSE SortKeyTuple(RowSortKey(row))

\* C1: sorting the four documented rows (Title-only, Chapter-only,
\* Part-only, Section), from any input permutation, yields them in exactly
\* that order.
C1_ExampleOrder ==
    \A fn \in {"sort", "sort_dictionary_sheet"} :
        Returned(fn) /\ input.rows \in Orderings(ExampleRows)
            => output = <<TitleRow, ChapterRow, PartRow, SectionRow>>

\* C4: sorting is stable: the rows sharing any one SortKey appear in the
\* output in the order they have in the input.
C4_SortStable ==
    \A fn \in {"sort", "sort_dictionary_sheet"} :
        Returned(fn) =>
            \A n \in 1..Len(input.rows) :
                LET k == KeyUsedBy(fn, input.rows[n])
                    SameKey(row) == KeyUsedBy(fn, row) = k
                IN SelectSeq(output, SameKey) = SelectSeq(input.rows, SameKey)

\* C4 witness: a sort returned that moved rows, with two different rows of
\* one SortKey in its input
C4_Witness ==
    /\ Returned("sort")
    /\ output # input.rows
    /\ \E i, j \in 1..Len(input.rows) :
          /\ i < j
          /\ input.rows[i] # input.rows[j]
          /\ KeyUsedBy("sort", input.rows[i]) = KeyUsedBy("sort", input.rows[j])

RECURSIVE IsSubsequence(_, _)
IsSubsequence(a, b) ==
    IF a = <<>> THEN TRUE
    ELSE IF b = <<>> THEN FALSE
    ELSE IF Head(a) = Head(b) THEN IsSubsequence(Tail(a), Tail(b))
    ELSE IsSubsequence(a, Tail(b))

\* C5: dedup is order-preserving and idempotent: the kept rows are a
\* subsequence of the input, hold each DedupKey of the input exactly once,
\* each by its first occurrence; removedCount is the number of rows dropped;
\* and dedup of the kept rows removes nothing and returns them unchanged.
C5_DedupOrderIdempotent ==
    Returned("_dedup_rows") =>
        LET rs == input.rows
            hs == input.has_status
            kept == output[1]
            removed == output[2]
            K(row) == RowKey(row, hs)
        IN /\ IsSubsequence(kept, rs)
           /\ \A i, j \in 1..Len(kept) : K(kept[i]) = K(kept[j]) => i = j
           /\ {K(kept[i]) : i \in 1..Len(kept)} = {K(rs[i]) : i \in 1..Len(rs)}
           /\ \A i \in 1..Len(kept) :
                 kept[i] = rs[CHOOSE n \in 1..Len(rs) :
                                /\ K(rs[n]) = K(kept[i])
                                /\ \A m \in 1..(n - 1) : K(rs[m]) # K(rs[n])]
           /\ removed = Len(rs) - Len(kept)
           /\ _dedup_rows(kept, hs) = <<kept, 0>>

\* C5 witness: a dedup returned that dropped a row and kept at least two
C5_Witness ==
    Returned("_dedup_rows") /\ output[2] >= 1 /\ Len(output[1]) >= 2

\* the DedupKey as documented: upper-cased Jurisdiction, trimmed Title,
\* Chapter, Part and Value, digit-normalized Section, trimmed Status (empty
\* when the sheet has no Status column)
Trimmed(v) == IF v.t = "none" THEN <<>> ELSE Strip(v.s)

DigitNormalized(v) ==
    IF IsDigit(Trimmed(v)) THEN Trimmed(v)
    ELSE SelectSeq(Trimmed(v), LAMBDA c : c \in Digits)

DocumentedDedupKey(row, hs) ==
    <<Upper(Trimmed(row.jurisdiction)), Trimmed(row.title),
      Trimmed(row.chapter), Trimmed(row.part), DigitNormalized(row.section),
      Trimmed(row.value), IF hs THEN Trimmed(row.status) ELSE <<>> >>

\* C6: dedup treats two rows as duplicates exactly when their DedupKeys are
\* identical: the rows kept are the rows with no earlier row of the same
\* DedupKey, so of two rows that differ only in Key the later one is removed.
C6_DuplicateIffSameKey ==
    Returned("_dedup_rows") =>
        LET rs == input.rows
            hs == input.has_status
            first == {n \in 1..Len(rs) :
                        \A m \in 1..(n - 1) :
                            DocumentedDedupKey(rs[m], hs)
                                # DocumentedDedupKey(rs[n], hs)}
            FirstOnly[n \in 0..Len(rs)] ==
                IF n = 0 THEN <<>>
                ELSE IF n \in first THEN Append(FirstOnly[n - 1], rs[n])
                ELSE FirstOnly[n - 1]
        IN /\ output[1] = FirstOnly[Len(rs)]
           /\ output[2] = Len(rs) - Cardinality(first)

\* C6 witness: two rows that differ only in Key went in, one came out
C6_Witness ==
    /\ Returned("_dedup_rows")
    /\ input.rows = <<ChapterRow, ChapterRowKeyed>>
    /\ output = <<(<<ChapterRow>>), 1>>

\* C7: classify returns PART_ONLY (2) whenever Part is present and Section
\* absent, Chapter absent included, and SECTION (3) whenever Section is
\* present.
C7_PartOnlyWithoutChapter ==
    \A fn \in {"_level", "_get_level"} :
        Returned(fn) =>
            /\ (input.part # <<>> /\ input.section = <<>> => output = 2)
            /\ (input.section # <<>> => output = 3)

Presence(c, p, s) == <<c # <<>>, p # <<>>, s # <<>> >>

TitleCells == {NoneCell, IntCell(<<"3", "5">>), StrCell(<<"1", "4">>),
               StrCell(<<"x">>)}

\* C8: classify is total and deterministic: it returns a level in 0..3, the
\* level depends only on which of Chapter, Part, Section are non-empty
\* (not on their values, not on Title), and: all absent -> 0, Chapter only
\* -> 1, Chapter and Part without Section -> 2, Chapter and Section -> 3.
C8_ClassifyTotal ==
    /\ \A fn \in {"_level", "_get_level"} :
          Returned(fn) =>
            LET c == input.chapter
                p == input.part
                s == input.section
                has == Presence(c, p, s)
            IN /\ output \in 0..3
               /\ (has = <<FALSE, FALSE, FALSE>> => output = 0)
               /\ (has = <<TRUE, FALSE, FALSE>> => output = 1)
               /\ (has = <<TRUE, TRUE, FALSE>> => output = 2)
               /\ (has[1] /\ has[3] => output = 3)
               /\ \A c2, p2, s2 \in LevelStrings :
                     Presence(c2, p2, s2) = has =>
                        /\ _level(c2, p2, s2) = output
                        /\ _get_level(c2, p2, s2) = output
    /\ Returned("sort") =>
          \A n \in 1..Len(input.rows) : \A t \in TitleCells :
              _make_sort_key([input.rows[n] EXCEPT !.title = t]).level
                  = _make_sort_key(input.rows[n]).level

\* C8 witness: classify returned SECTION for Chapter and Section without Part
C8_Witness ==
    /\ Returned("_level")
    /\ Presence(input.chapter, input.part, input.section)
          = <<TRUE, FALSE, TRUE>>
    /\ output = 3

\* a Jurisdiction cell that is None or blank
JurisdictionAbsent(v) == v.t = "none" \/ Trimmed(v) = <<>>

\* "TCA" in any mix of upper and lower case
IsCaseVariantOfTCA(s) ==
    /\ Len(s) = 3
    /\ s[1] \in {"T", "t"} /\ s[2] \in {"C", "c"} /\ s[3] \in {"A", "a"}

\* how many messages of a list name sheet row rn and column/kind col
CountFor(msgs, rn, F(_)) ==
    Cardinality({k \in 1..Len(msgs) : msgs[k].row = rn /\ F(msgs[k])})

IsJurisdictionError(m) == m.kind = "Jurisdiction"
IsJurisdictionIssue(m) == m.column = "Jurisdiction"

\* the check as the pipeline validator is documented to make it
CaseInsensitiveJurisdictionCheck(msgs, rs, F(_)) ==
    \A n \in 1..Len(rs) :
        CountFor(msgs, n + 1, F) =
            IF \/ JurisdictionAbsent(rs[n].jurisdiction)
               \/ IsCaseVariantOfTCA(Trimmed(rs[n].jurisdiction))
            THEN 0 ELSE 1

\* validate_workbook skips the row: no Jurisdiction, Section or Value text
\* and no integer Title, Chapter or Part
SkippedAsBlank(row) ==
    /\ \A v \in {row.jurisdiction, row.section, row.value} :
          v.t = "none" \/ Trimmed(v) = <<>>
    /\ \A v \in {row.title, row.chapter, row.part} : _to_int(v) = NoneInt

\* C10 as stated: every Jurisdiction check compares case-insensitively with
\* "TCA": no Jurisdiction error for a case variant of "tca" or an absent
\* Jurisdiction, exactly one for any other value.
C10_CaseInsensitiveEverywhere ==
    /\ Returned("_validate_rows") =>
          CaseInsensitiveJurisdictionCheck(output[1], input.rows,
                                           IsJurisdictionError)
    /\ Returned("validate_workbook") =>
          CaseInsensitiveJurisdictionCheck(output, input.rows,
                                           IsJurisdictionIssue)

\* C10 amended: _validate_rows compares case-insensitively (no Jurisdiction
\* error for a case variant of "tca" or an absent Jurisdiction, exactly one
\* for any other value); validate_workbook compares the trimmed text exactly
\* and reports one Jurisdiction issue for every row it does not skip as
\* blank whose Jurisdiction is not "TCA" itself, case variants and absent
\* cells included.
C10_JurisdictionCheck ==
    /\ Returned("_validate_rows") =>
          CaseInsensitiveJurisdictionCheck(output[1], input.rows,
                                           IsJurisdictionError)
    /\ Returned("validate_workbook") =>
          \A n \in 1..Len(input.rows) :
              CountFor(output, n + 1, IsJurisdictionIssue) =
                  IF \/ Trimmed(input.rows[n].jurisdiction) = TCA
                     \/ SkippedAsBlank(input.rows[n])
                  THEN 0 ELSE 1

\* C10 witness: _validate_rows returned for a "tca" row and a "US" row with
\* one Jurisdiction error in all
C10_Witness ==
    /\ Returned("_validate_rows")
    /\ Len(input.rows) = 2
    /\ input.rows[1].jurisdiction = StrCell(<<"t", "c", "a">>)
    /\ input.rows[2].jurisdiction = StrCell(<<"U", "S">>)
    /\ Cardinality({k \in 1..Len(output[1]) :
                      IsJurisdictionError(output[1][k])}) = 1

\* the text of a Section cell as entered; an absent cell has none
SectionText(v) == IF v.t = "none" THEN <<>> ELSE v.s

\* the text with every non-digit removed
DigitsOf(s) == SelectSeq(s, LAMBDA c : c \in Digits)

\* the documented normal form of a Section cell
NormalForm(v) ==
    LET s == SectionText(v) IN
    IF s = <<>> THEN <<>>
    ELSE IF \A k \in 1..Len(s) : s[k] \in Digits THEN s
    ELSE DigitsOf(s)

IsSectionNotNumeric(m) == m.kind = "SectionNotNumeric"
IsSectionLength(m) == m.kind = "SectionLength"

\* C11: _norm_section_for_logic returns "" for an empty Section, the input
\* unchanged when it is all digits, and otherwise the input with every
\* non-digit removed ("03-01" becomes "0301"); _validate_rows then reports
\* no 'not numeric' error for a Section whose normal form is all digits and
\* a length warning exactly when the normal form is non-empty and its
\* length is not 3 or 4.
C11_NormalizeSection ==
    /\ Returned("_norm_section_for_logic") =>
          output = NormalForm(input.section_raw)
    /\ Returned("_validate_rows") =>
          \A n \in 1..Len(input.rows) :
              LET nf == NormalForm(input.rows[n].section) IN
              /\ (nf # <<>> /\ \A k \in 1..Len(nf) : nf[k] \in Digits) =>
                    CountFor(output[1], n + 1, IsSectionNotNumeric) = 0
              /\ CountFor(output[2], n + 1, IsSectionLength) =
                    IF nf # <<>> /\ Len(nf) \notin {3, 4} THEN 1 ELSE 0

\* C11 witness: a row whose Section "1-2" normalizes to the two digits "12"
\* was validated with a length warning and no 'not numeric' error
C11_Witness ==
    /\ Returned("_validate_rows")
    /\ Len(input.rows) = 1
    /\ input.rows[1].section = StrCell(<<"1", "-", "2">>)
    /\ NormalForm(input.rows[1].section) = <<"1", "2">>
    /\ CountFor(output[2], 2, IsSectionLength) = 1
    /\ CountFor(output[1], 2, IsSectionNotNumeric) = 0

\* a field is present when its trimmed text is not empty; a Section when
\* its normal form is not empty
FieldPresent(v) == Trimmed(v) # <<>>
SectionPresent(v) == NormalForm(v) # <<>>

\* the messages of a list that name sheet row rn
MessagesFor(msgs, rn) == {k \in 1..Len(msgs) : msgs[k].row = rn}

\* a row that breaks a presence rule gets at least one message
OrphansReported(msgs, rs) ==
    \A n \in 1..Len(rs) :
        /\ (FieldPresent(rs[n].part) /\ ~FieldPresent(rs[n].chapter)) =>
              MessagesFor(msgs, n + 1) # {}
        /\ (SectionPresent(rs[n].section) /\ ~FieldPresent(rs[n].chapter)) =>
              MessagesFor(msgs, n + 1) # {}

\* C12: every row in which Part is present and Chapter is absent produces
\* a validation error, and every row in which Section is present and
\* Chapter is absent produces a validation error, in _validate_rows and in
\* validate_workbook alike; the rows validated are left as they were.
C12_OrphansReported ==
    /\ Returned("_validate_rows") => OrphansReported(output[1], input.rows)
    /\ Returned("validate_workbook") => OrphansReported(output, input.rows)

\* C13: sorting is idempotent: sorting the output of either sorter again
\* yields the identical sequence, the same rows in the same positions.
C13_SortIdempotent ==
    /\ Returned("sort") => SortRows(output) = output
    /\ Returned("sort_dictionary_sheet") =>
          sort_dictionary_sheet(output) = output

\* C13 witness: sort_dictionary_sheet reordered a sheet that holds two
\* different rows of one SortKey, and sorting its output changes nothing
C13_Witness ==
    /\ Returned("sort_dictionary_sheet")
    /\ output # input.rows
    /\ \E i, j \in 1..Len(output) :
          /\ i < j
          /\ output[i] # output[j]
          /\ KeyUsedBy("sort_dictionary_sheet", output[i])
                = KeyUsedBy("sort_dictionary_sheet", output[j])
    /\ sort_dictionary_sheet(output) = output

----------------------------------------------------------------------------
(* Claims about validate_workbook (SpecVal) *)

\* a Part row: Chapter and Part given, Section blank
IsPartRow(row) ==
    _to_int(row.chapter) # NoneInt /\ _to_int(row.part) # NoneInt
        /\ BlankCell(row.section)

\* a Section row: Chapter given, Section not blank
IsSectionRow(row) == _to_int(row.chapter) # NoneInt /\ ~BlankCell(row.section)

\* the Section is a well-formed code of 3 or 4 digits
WellFormedSection(row) ==
    LET s == Trimmed(row.section) IN Len(s) \in {3, 4} /\ IsDigit(s)

\* the first loop has processed sheet rows rn - 1 and rn, a Part row
\* immediately followed by a Section row of another Chapter
PartThenSectionOfOtherChapter(rn) ==
    /\ vpc = "walk"
    /\ rn >= 3
    /\ rn < r
    /\ IsPartRow(sheet.data[rn - 2])
    /\ IsSectionRow(sheet.data[rn - 1])
    /\ _to_int(sheet.data[rn - 1].chapter) # _to_int(sheet.data[rn - 2].chapter)

\* a Hierarchy issue for sheet row rn naming the mismatch of its Chapter
MismatchReported(rn) ==
    \E k \in 1..Len(issues) :
        /\ issues[k].row = rn
        /\ issues[k].column = "Hierarchy"
        /\ issues[k].message = "SectionChapterMismatch"
        /\ issues[k].a = _to_int(sheet.data[rn - 1].chapter)

\* C9 as stated: whatever rows came before, a Part row for chapter c
\* immediately followed by a Section row of chapter c' # c yields a
\* Hierarchy issue naming the mismatch for the Section row.
C9_MismatchAlways ==
    \A rn \in 3..max_row :
        PartThenSectionOfOtherChapter(rn) => MismatchReported(rn)

\* C9 amended: when the validator's current Chapter (the last Chapter row
\* since the last Title row) is c as the Part row for chapter c is read, and
\* the Section row that follows immediately has a well-formed 3-4 digit
\* Section and a Chapter c' # c, a Hierarchy issue naming the mismatch is
\* produced for the Section row.
C9_MismatchUnderOpenChapter ==
    \A rn \in 3..max_row :
        /\ PartThenSectionOfOtherChapter(rn)
        /\ rn = r - 1
        /\ WellFormedSection(sheet.data[rn - 1])
        /\ current_chapter = _to_int(sheet.data[rn - 2].chapter)
        => MismatchReported(rn)

\* C9 witness: Title, Chapter 5, Part of 5, then a Section of Chapter 6 has
\* just been walked and the mismatch is reported for it
C9_Witness ==
    /\ r = 6
    /\ PartThenSectionOfOtherChapter(5)
    /\ WellFormedSection(sheet.data[4])
    /\ current_chapter = 5
    /\ _to_int(sheet.data[4].chapter) = 6
    /\ MismatchReported(5)

IsSectionBeforePart(m) == m.message = "SectionBeforePart"

\* a Part row for chapter c
IsPartRowOf(c, row) == IsPartRow(row) /\ _to_int(row.chapter) = c

\* the part-ordering pass has dealt with data row n
PartPassDone(n) == vpc = "done" \/ (vpc = "partwalk" /\ n + 1 < r)

\* C15: in the part-ordering pass a Section row with chapter c produces the
\* 'uses Parts, but a Section appears before any Part row' issue if and
\* only if some Part row for chapter c exists anywhere in the sheet and no
\* Part row for chapter c occurs earlier in file order; Section rows of
\* chapters with no Part row anywhere never produce it.
C15_SectionBeforePart ==
    sheet.present /\ sheet.headers =>
        \A n \in 1..Len(sheet.data) :
            PartPassDone(n) =>
                LET row == sheet.data[n]
                    c == _to_int(row.chapter)
                IN CountFor(issues, n + 1, IsSectionBeforePart) =
                     IF /\ IsSectionRow(row)
                        /\ \E m \in 1..Len(sheet.data) :
                               IsPartRowOf(c, sheet.data[m])
                        /\ ~\E m \in 1..(n - 1) :
                               IsPartRowOf(c, sheet.data[m])
                     THEN 1 ELSE 0

\* C15 witness: the validator returned for a sheet in which a Section row
\* of chapter 5 comes before the Part row of chapter 5 and is reported,
\* while a Section row of chapter 6, which has no Part row, is not
C15_Witness ==
    /\ vpc = "done"
    /\ \E n, m, k \in 1..Len(sheet.data) :
          /\ n < m
          /\ IsSectionRow(sheet.data[n])
          /\ _to_int(sheet.data[n].chapter) = 5
          /\ IsPartRowOf(5, sheet.data[m])
          /\ CountFor(issues, n + 1, IsSectionBeforePart) = 1
          /\ IsSectionRow(sheet.data[k])
          /\ _to_int(sheet.data[k].chapter) = 6
          /\ CountFor(issues, k + 1, IsSectionBeforePart) = 0

----------------------------------------------------------------------------
(* The order of the rows written by process_workbook (Spec) *)

\* no row's SortKey is below its predecessor's
NonDecreasing(rs) ==
    \A n \in 2..Len(rs) :
        ~TupleLess(SortKeyTuple(_make_sort_key(rs[n])),
                   SortKeyTuple(_make_sort_key(rs[n - 1])))

\* row for row, the same SortKey and the same DedupKey
SameKeys(a, b) ==
    /\ Len(a) = Len(b)
    /\ \A n \in 1..Len(a) :
          /\ _make_sort_key(a[n]) = _make_sort_key(b[n])
          /\ DocumentedDedupKey(a[n], wb.has_status)
                = DocumentedDedupKey(b[n], wb.has_status)

\* the rows as the sort stage and as the dedup stage leave them
RowsAfterSort ==
    LET read == _read_sheet_rows(wb.data) IN
    IF opts.do_sort THEN SortRows(read) ELSE read

RowsAfterDedup ==
    IF opts.do_dedup THEN _dedup_rows(RowsAfterSort, wb.has_status)[1]
    ELSE RowsAfterSort

\* C16: when sorting is enabled the rows handed to the writer are
\* non-decreasing in SortKey: after the sort stage no row's key is below
\* its predecessor's, dedup only removes rows and the section rewrite
\* leaves every row's SortKey and DedupKey unchanged, so a strict-order
\* check of the written rows gives no warning.
C16_WrittenRowsSorted ==
    opts.do_sort /\ Loaded /\ ~FailFastReturn =>
        /\ pc = "dedup" => rows = RowsAfterSort
        /\ pc = "rewrite" =>
              rows = RowsAfterDedup /\ IsSubsequence(rows, RowsAfterSort)
        /\ pc \in {"validate2", "replace", "save", "report", "done"} =>
              SameKeys(rows, RowsAfterDedup)
        /\ pc \notin {"validate1", "sort"} => NonDecreasing(rows)
        /\ saved.done =>
              /\ saved.data = rows
              /\ NonDecreasing(saved.data)
              /\ OrderingWarnings(_validate_rows(saved.data, TRUE)[2]) = <<>>

\* C16 witness: a run with sort, dedup and rewrite has saved two rows; the
\* sort moved the rows read, dedup dropped none of them and the rewrite
\* changed a Section cell
C16_Witness ==
    /\ pc = "done"
    /\ opts.do_sort /\ opts.do_dedup /\ opts.rewrite_section
    /\ saved.done
    /\ Len(saved.data) = 2
    /\ RowsAfterSort # _read_sheet_rows(wb.data)
    /\ saved.data # RowsAfterDedup
    /\ NonDecreasing(saved.data)

=============================================================================
